---- MODULE Spec2Model ----
(***************************************************************************)
(* Model of .github/scripts/check_similar_pr.py: the duplicate pull        *)
(* request detector.  The pure functions (tokenize, jaccard,               *)
(* compute_similarity) are operators; main() is a state machine whose      *)
(* steps are cut at the external calls (gh_get, requests.post).            *)
(*                                                                         *)
(* Numbers that are floats in the program are exact rationals <<n, d>>     *)
(* with d > 0 here; texts are sequences of one-character strings.  The     *)
(* url and author fields of a record only feed the message text and are    *)
(* left out.  A raising gh_get ends the run: its locals are reset then.    *)
(***************************************************************************)
EXTENDS Integers, Sequences, FiniteSets, TLC

VARIABLES
    pc,            \* position of the run
    pr_number,     \* PR_NUMBER of the environment
    slack_webhook, \* TRUE iff SLACK_WEBHOOK_URL is set
    current,       \* main: the current record
    target,        \* get_pr_files: pr_num
    files,         \* get_pr_files: files
    page,          \* get_pr_files: page
    reqs,          \* pages requested by the latest get_pr_files call, in order
    prs,           \* get_recent_prs: prs
    lpage,         \* get_recent_prs: page
    res,           \* get_recent_prs: res (the page being scanned)
    recent_prs,    \* main: recent_prs
    idx,           \* main: position of the for loop in recent_prs
    cand,          \* main: cand, the candidate scored last
    out,           \* main: score, file_overlap, text_sim of the last scoring
    jac,           \* harness: results of the direct jaccard calls
    candidates,    \* main: candidates
    encounter,     \* the gated candidates in the order they were appended
    top,           \* main: top
    scored,        \* numbers of the candidates handed to compute_similarity
    notified,      \* number of calls of notify_slack
    posted,        \* outcome of requests.post, "none" before it
    printed,       \* what the run printed
    exit           \* "running", "ok" (normal return) or "error" (exception)

vars == <<pc, pr_number, slack_webhook, current, target, files, page, reqs,
          prs, lpage, res, recent_prs, idx, cand, out, jac, candidates,
          encounter, top, scored, notified, posted, printed, exit>>

----------------------------------------------------------------------------
(* Bounds of the model *)

\* longest file list drawn for a record of the scoring harness
MaxFiles == 2

\* most entries the pull request listing serves over all its pages
MaxListing == 4

----------------------------------------------------------------------------
(* Rational arithmetic standing for the program's float arithmetic *)

Rat(n, d) == <<n, d>>

Zero == Rat(0, 1)

One == Rat(1, 1)

RatMul(a, b) == Rat(a[1] * b[1], a[2] * b[2])

RatAdd(a, b) == Rat(a[1] * b[2] + b[1] * a[2], a[2] * b[2])

RatGeq(a, b) == a[1] * b[2] >= b[1] * a[2]

RatEq(a, b) == a[1] * b[2] = b[1] * a[2]

RatGt(a, b) == a[1] * b[2] > b[1] * a[2]

\* a / b of two ints; the program divides only behind a guard b # 0
Div(a, b) == Rat(a, b)

----------------------------------------------------------------------------
(* Program constants *)

FileWeight == Rat(6, 10)

TextWeight == Rat(4, 10)

MinScore == Rat(5, 10)

MinFileOverlap == Rat(4, 10)

TopN == 3

----------------------------------------------------------------------------
(* tokenize *)

UpperCase == <<"A","B","C","D","E","F","G","H","I","J","K","L","M",
               "N","O","P","Q","R","S","T","U","V","W","X","Y","Z">>

LowerCase == <<"a","b","c","d","e","f","g","h","i","j","k","l","m",
               "n","o","p","q","r","s","t","u","v","w","x","y","z">>

Digits == {"0","1","2","3","4","5","6","7","8","9"}

UpperSet == {UpperCase[i] : i \in DOMAIN UpperCase}

LowerOf == [c \in UpperSet |->
               LowerCase[CHOOSE i \in DOMAIN UpperCase : UpperCase[i] = c]]

\* str.lower() on one character
Lower(c) == IF c \in UpperSet THEN LowerOf[c] ELSE c

WordChars == {LowerCase[i] : i \in DOMAIN LowerCase} \cup Digits \cup {"_"}

\* the character class [a-z0-9_]
WordChar(c) == c \in WordChars

\* re.findall(r"[a-z0-9_]+", text): the maximal runs, left to right
RECURSIVE FindAll(_, _, _, _)
FindAll(text, i, run, acc) ==
    IF i > Len(text)
    THEN IF run = <<>> THEN acc ELSE Append(acc, run)
    ELSE IF WordChar(text[i])
         THEN FindAll(text, i + 1, Append(run, text[i]), acc)
         ELSE FindAll(text, i + 1, <<>>,
                      IF run = <<>> THEN acc ELSE Append(acc, run))

Range(s) == {s[i] : i \in DOMAIN s}

tokenize(text) ==
    LET lowered == [i \in DOMAIN text |-> Lower(text[i])]
        tokens  == FindAll(lowered, 1, <<>>, <<>>)
    IN  Range(tokens)

----------------------------------------------------------------------------
(* jaccard and compute_similarity *)

\* faulty variant of jaccard: divides by |s1| instead of the union
jaccard_onesided(s1, s2) ==
    IF s1 = {} /\ s2 = {}
    THEN Zero
    ELSE LET inter == Cardinality(s1 \cap s2)
             base  == Cardinality(s1)
         IN  IF base # 0 THEN Div(inter, base) ELSE Zero

\* lines 50-55
jaccard(s1, s2) ==
    IF s1 = {} /\ s2 = {}
    THEN Zero
    ELSE LET inter == Cardinality(s1 \cap s2)
             union == Cardinality(s1 \cup s2)
         IN  IF union # 0 THEN Div(inter, union) ELSE Zero

\* faulty variant of FileOverlap: relative to the union of both file sets
FileOverlap_symmetric(cur_files, cand_files) ==
    IF cur_files \cup cand_files = {}
    THEN Zero
    ELSE Div(Cardinality(cur_files \cap cand_files),
             Cardinality(cur_files \cup cand_files))

\* lines 59-65: the file_overlap of two file sets
FileOverlap(cur_files, cand_files) ==
    IF cur_files = {}
    THEN Zero
    ELSE Div(Cardinality(cur_files \cap cand_files), Cardinality(cur_files))

\* f"{title} {body}"
TextOf(rec) == rec.title \o <<" ">> \o rec.body

\* faulty variant of WeightedSum: the text weight is 0.6 too
WeightedSum_evenfiles(file_overlap, text_sim) ==
    RatAdd(RatMul(Rat(6, 10), file_overlap), RatMul(Rat(6, 10), text_sim))

\* line 75
WeightedSum(file_overlap, text_sim) ==
    RatAdd(RatMul(FileWeight, file_overlap), RatMul(TextWeight, text_sim))

\* lines 58-76
compute_similarity(cur, cnd) ==
    LET cur_files    == Range(cur.files)
        cand_files   == Range(cnd.files)
        file_overlap == FileOverlap(cur_files, cand_files)
        cur_tokens   == tokenize(TextOf(cur))
        cand_tokens  == tokenize(TextOf(cnd))
        text_sim     == jaccard(cur_tokens, cand_tokens)
    IN  [score        |-> WeightedSum(file_overlap, text_sim),
         file_overlap |-> file_overlap,
         text_sim     |-> text_sim]

----------------------------------------------------------------------------
(* The source-hosting service: what gh_get answers *)

\* the pull requests of the repository, by number
PRTitle == <<
    <<"F","i","x"," ","b","u","g">>,
    <<"f","i","x","-","B","U","G">>,
    <<"A","d","d"," ","x","_","1">>,
    <<"F","I","X"," ","b","u","g">>,
    <<>> >>

\* the body of each pull request: <<>> is null, <<text>> a text
PRBody == <<
    <<>>,
    << <<>> >>,
    << <<"b","u","g"," ","2">> >>,
    << <<>> >>,
    <<>> >>

PRState == <<"open", "closed", "open", "closed", "open">>

\* the file names of each pull request as the files endpoint pages them
PRFilePages == <<
    << <<"a","b">>, <<"a">> >>,
    << <<"a","b">>, <<"c">> >>,
    << <<"b","a">> >>,
    << <<"c">> >>,
    <<>> >>

PRNumbers == DOMAIN PRTitle

\* GET /repos/{repo}/pulls/{n}
ServerPr(n) == [number |-> n, title |-> PRTitle[n], body |-> PRBody[n]]

\* GET /repos/{repo}/pulls/{n}/files?page=p: empty past the last page
ServerFilesPage(n, p) ==
    IF p \in DOMAIN PRFilePages[n] THEN PRFilePages[n][p] ELSE <<>>

\* the cutoff computed by get_recent_prs; updated_at is compared with it
Since == 1

Times == {Since - 1, Since}

\* one entry of GET /repos/{repo}/pulls
Entries == [number : PRNumbers, updated_at : Times]

\* the listing serves pages of at most this many entries
ListPerPage == MaxListing \div 2

SeqsUpTo(S, n) == UNION {[1..k -> S] : k \in 0..n}

Min(a, b) == IF a <= b THEN a ELSE b

\* the pages the listing may answer when `served` entries were served before
ListChunks(served) == SeqsUpTo(Entries, Min(ListPerPage, MaxListing - served))

\* pr.get("body") or ""
BodyOrEmpty(body) ==
    IF body = <<>> THEN <<>> ELSE IF body[1] = <<>> THEN <<>> ELSE body[1]

----------------------------------------------------------------------------
(* Helpers of main *)

NoRecord == [number |-> 0, title |-> <<>>, body |-> <<>>, files |-> <<>>]

NoOut == [score |-> Zero, file_overlap |-> Zero, text_sim |-> Zero]

NoJac == [fwd |-> Zero, bwd |-> Zero, self |-> Zero]

\* faulty variant of IsLastChunk: a page that is not full ends the loop
IsLastChunk_partial(chunk) == Len(chunk) < 2

\* line 36: not chunk
IsLastChunk(chunk) == chunk = <<>>

\* faulty variant of IsSelf: the current pull request is not recognised
IsSelf_never(pr, cur) == FALSE

\* line 129
IsSelf(pr, cur) == pr.number = cur.number

\* faulty variant of Gate: one threshold suffices
Gate_or(score, file_overlap) ==
    RatGeq(score, MinScore) \/ RatGeq(file_overlap, MinFileOverlap)

\* line 144
Gate(score, file_overlap) ==
    RatGeq(score, MinScore) /\ RatGeq(file_overlap, MinFileOverlap)

\* the entries of a page that precede the first one older than the cutoff
RECURSIVE TakeRecent(_)
TakeRecent(page_) ==
    IF page_ = <<>> \/ Head(page_).updated_at < Since
    THEN <<>>
    ELSE <<Head(page_)>> \o TakeRecent(Tail(page_))

\* line 97 fires for some entry of the page
HasOld(page_) == \E i \in DOMAIN page_ : page_[i].updated_at < Since

\* x is placed behind every element whose score is >= its own
RECURSIVE InsertDesc(_, _)
InsertDesc(sorted, x) ==
    IF sorted = <<>>
    THEN <<x>>
    ELSE IF RatGeq(Head(sorted).score, x.score)
         THEN <<Head(sorted)>> \o InsertDesc(Tail(sorted), x)
         ELSE <<x>> \o sorted

\* faulty variant of InsertDesc: x is placed before the elements of equal score
RECURSIVE InsertDesc_front(_, _)
InsertDesc_front(sorted, x) ==
    IF sorted = <<>>
    THEN <<x>>
    ELSE IF RatGt(Head(sorted).score, x.score)
         THEN <<Head(sorted)>> \o InsertDesc_front(Tail(sorted), x)
         ELSE <<x>> \o sorted

\* faulty variant of SortDesc: equal scores come out in reverse order
RECURSIVE SortDesc_unstable(_)
SortDesc_unstable(seq) ==
    IF seq = <<>>
    THEN <<>>
    ELSE InsertDesc_front(SortDesc_unstable(SubSeq(seq, 1, Len(seq) - 1)),
                          seq[Len(seq)])

\* candidates.sort(key=lambda x: x[0], reverse=True): stable, descending
RECURSIVE SortDesc(_)
SortDesc(seq) ==
    IF seq = <<>>
    THEN <<>>
    ELSE InsertDesc(SortDesc(SubSeq(seq, 1, Len(seq) - 1)), seq[Len(seq)])

\* candidates[:3]
Take(seq, n) == SubSeq(seq, 1, Min(n, Len(seq)))

\* faulty variant of NothingFound: the empty list is not recognised
NothingFound_never(cands) == FALSE

\* line 147: not candidates
NothingFound(cands) == cands = <<>>

----------------------------------------------------------------------------
(* main as a state machine *)

envVars == <<pr_number, slack_webhook>>

fileVars == <<target, files, page, reqs>>

listVars == <<prs, lpage, res>>

loopVars == <<recent_prs, idx, cand, out, candidates, encounter, scored>>

endVars == <<top, notified, posted, printed>>

Init ==
    /\ pc = "get_pr"
    /\ pr_number \in PRNumbers
    /\ slack_webhook \in BOOLEAN
    /\ current = NoRecord
    /\ target = 0
    /\ files = <<>>
    /\ page = 1
    /\ reqs = <<>>
    /\ prs = <<>>
    /\ lpage = 1
    /\ res = <<>>
    /\ recent_prs = <<>>
    /\ idx = 1
    /\ cand = NoRecord
    /\ out = NoOut
    /\ jac = NoJac
    /\ candidates = <<>>
    /\ encounter = <<>>
    /\ top = <<>>
    /\ scored = {}
    /\ notified = 0
    /\ posted = "none"
    /\ printed = {}
    /\ exit = "running"

\* gh_get: raise_for_status (or the transport) raises; nothing catches it,
\* so the exception unwinds main and the locals of the run are gone
ReadFails ==
    /\ pc' = "aborted"
    /\ exit' = "error"
    /\ current' = NoRecord
    /\ target' = 0
    /\ files' = <<>>
    /\ page' = 1
    /\ reqs' = <<>>
    /\ prs' = <<>>
    /\ lpage' = 1
    /\ res' = <<>>
    /\ recent_prs' = <<>>
    /\ idx' = 1
    /\ cand' = NoRecord
    /\ out' = NoOut
    /\ candidates' = <<>>
    /\ encounter' = <<>>
    /\ scored' = {}
    /\ UNCHANGED <<envVars, jac, endVars>>

\* line 114, and the entry into get_pr_files of line 115
GetPr ==
    /\ pc = "get_pr"
    /\ \/ ReadFails
       \/ /\ pc' = "cur_files"
          /\ target' = pr_number
          /\ files' = <<>>
          /\ page' = 1
          /\ reqs' = <<>>
          /\ UNCHANGED <<envVars, current, listVars, loopVars, jac, endVars, exit>>

\* one turn of the loop of get_pr_files for the current pull request; at the
\* empty page: lines 116-123 and the entry into get_recent_prs
CurFilesPage ==
    /\ pc = "cur_files"
    /\ \/ ReadFails
       \/ LET chunk == ServerFilesPage(target, page) IN
          /\ reqs' = Append(reqs, page)
          /\ IF IsLastChunk(chunk)
             THEN /\ current' = [number |-> ServerPr(pr_number).number,
                                 title  |-> ServerPr(pr_number).title,
                                 body   |-> BodyOrEmpty(ServerPr(pr_number).body),
                                 files  |-> files]
                  /\ prs' = <<>>
                  /\ lpage' = 1
                  /\ pc' = "list_fetch"
                  /\ UNCHANGED <<files, page, res>>
             ELSE /\ files' = files \o chunk
                  /\ page' = page + 1
                  /\ UNCHANGED <<pc, current, listVars>>
          /\ UNCHANGED <<envVars, target, loopVars, jac, endVars, exit>>

\* lines 84-91: one page of the listing is requested
ListFetch ==
    /\ pc = "list_fetch"
    /\ \/ ReadFails
       \/ \E chunk \in ListChunks(Len(prs)) :
          /\ res' = chunk
          /\ pc' = "list_scan"
          /\ UNCHANGED <<envVars, current, fileVars, prs, lpage, loopVars, jac,
                         endVars, exit>>

\* what get_recent_prs returns goes to recent_prs, and the for loop starts;
\* the locals of get_recent_prs are gone
ListReturn(result) ==
    /\ prs' = result
    /\ res' = <<>>
    /\ recent_prs' = result
    /\ idx' = 1
    /\ candidates' = <<>>
    /\ encounter' = <<>>
    /\ lpage' = 1
    /\ pc' = "loop"
    /\ UNCHANGED <<cand, out, scored>>

\* lines 92-101: the page is scanned
ListScan ==
    /\ pc = "list_scan"
    /\ IF res = <<>>
       THEN ListReturn(prs)
       ELSE IF HasOld(res)
            THEN ListReturn(prs \o TakeRecent(res))
            ELSE /\ prs' = prs \o res
                 /\ lpage' = lpage + 1
                 /\ res' = <<>>
                 /\ pc' = "list_fetch"
                 /\ UNCHANGED loopVars
    /\ UNCHANGED <<envVars, current, fileVars, jac, endVars, exit>>

\* lines 128-134: the head of the for loop
Loop ==
    /\ pc = "loop"
    /\ IF idx > Len(recent_prs)
       THEN /\ pc' = "select"
            /\ UNCHANGED <<idx, fileVars>>
       ELSE LET pr == recent_prs[idx] IN
            IF IsSelf(pr, current) \/ PRState[pr.number] \notin {"open", "closed"}
            THEN /\ idx' = idx + 1
                 /\ UNCHANGED <<pc, fileVars>>
            ELSE /\ target' = pr.number
                 /\ files' = <<>>
                 /\ page' = 1
                 /\ reqs' = <<>>
                 /\ pc' = "cand_files"
                 /\ UNCHANGED idx
    /\ UNCHANGED <<envVars, current, listVars, recent_prs, cand, out, candidates,
                   encounter, scored, jac, endVars, exit>>

\* one turn of the loop of get_pr_files for a candidate; at the empty page:
\* lines 135-145
CandFilesPage ==
    /\ pc = "cand_files"
    /\ \/ ReadFails
       \/ LET chunk == ServerFilesPage(target, page)
              pr    == recent_prs[idx]
              c     == [number |-> pr.number,
                        title  |-> PRTitle[pr.number],
                        body   |-> BodyOrEmpty(PRBody[pr.number]),
                        files  |-> files]
              o     == compute_similarity(current, c)
          IN
          /\ reqs' = Append(reqs, page)
          /\ IF IsLastChunk(chunk)
             THEN /\ cand' = c
                  /\ out' = o
                  /\ scored' = scored \cup {c.number}
                  /\ candidates' =
                        IF Gate(o.score, o.file_overlap)
                        THEN Append(candidates,
                                    [score |-> o.score,
                                     file_overlap |-> o.file_overlap,
                                     text_sim |-> o.text_sim,
                                     cand |-> c])
                        ELSE candidates
                  /\ encounter' = candidates'
                  /\ idx' = idx + 1
                  /\ pc' = "loop"
                  /\ UNCHANGED <<files, page>>
             ELSE /\ files' = files \o chunk
                  /\ page' = page + 1
                  /\ UNCHANGED <<pc, idx, cand, out, scored, candidates, encounter>>
          /\ UNCHANGED <<envVars, current, target, listVars, recent_prs, jac,
                         endVars, exit>>

\* lines 147-167 up to the request of notify_slack
Select ==
    /\ pc = "select"
    /\ IF NothingFound(candidates)
       THEN /\ printed' = printed \cup {"No similar PRs found."}
            /\ pc' = "done"
            /\ exit' = "ok"
            /\ UNCHANGED <<candidates, top, notified>>
       ELSE /\ candidates' = SortDesc(candidates)
            /\ top' = Take(candidates', TopN)
            /\ notified' = notified + 1
            /\ IF ~slack_webhook
               THEN /\ printed' = printed \cup {"SLACK_WEBHOOK_URL not set"}
                    /\ pc' = "done"
                    /\ exit' = "ok"
               ELSE /\ pc' = "post"
                    /\ UNCHANGED <<printed, exit>>
    /\ UNCHANGED <<envVars, current, fileVars, listVars, recent_prs, idx, cand, out,
                   encounter, scored, jac, posted>>

\* lines 109-110: requests.post answers, or raises when the destination
\* cannot be reached; nothing catches the exception
Post ==
    /\ pc = "post"
    /\ \/ \E status \in {"2xx", "non2xx"} :
            /\ posted' = status
            /\ printed' = printed \cup {"Slack response:"}
            /\ pc' = "done"
            /\ exit' = "ok"
       \/ /\ posted' = "unreachable"
          /\ pc' = "raised"
          /\ exit' = "error"
          /\ UNCHANGED printed
    /\ UNCHANGED <<envVars, current, fileVars, listVars, loopVars, jac, top, notified>>

Next ==
    \/ GetPr
    \/ CurFilesPage
    \/ ListFetch
    \/ ListScan
    \/ Loop
    \/ CandFilesPage
    \/ Select
    \/ Post

Spec == Init /\ [][Next]_vars

----------------------------------------------------------------------------
(* A harness for the pure functions: two records are drawn, then           *)
(* compute_similarity and jaccard are called on them                       *)

FileNames == {"a", "b", "c"}

SimTitles == {
    <<>>,
    <<"F","i","x"," ","b","u","g">>,
    <<"f","i","x","-","B","U","G">>,
    <<"A","d","d"," ","x","_","1">> }

SimBodies == { <<>>, <<"b","u","g"," ","2">> }

SimRecords ==
    [number : {0}, title : SimTitles, body : SimBodies,
     files : SeqsUpTo(FileNames, MaxFiles)]

SimInit ==
    /\ pc = "sim_score"
    /\ pr_number = 0
    /\ slack_webhook = FALSE
    /\ current \in SimRecords
    /\ cand \in SimRecords
    /\ target = 0
    /\ files = <<>>
    /\ page = 1
    /\ reqs = <<>>
    /\ prs = <<>>
    /\ lpage = 1
    /\ res = <<>>
    /\ recent_prs = <<>>
    /\ idx = 1
    /\ out = NoOut
    /\ jac = NoJac
    /\ candidates = <<>>
    /\ encounter = <<>>
    /\ top = <<>>
    /\ scored = {}
    /\ notified = 0
    /\ posted = "none"
    /\ printed = {}
    /\ exit = "running"

simFixed == <<envVars, current, cand, fileVars, listVars, recent_prs, idx,
              candidates, encounter, scored, endVars, exit>>

\* line 143 on the drawn records
SimScore ==
    /\ pc = "sim_score"
    /\ out' = compute_similarity(current, cand)
    /\ pc' = "sim_jaccard"
    /\ UNCHANGED <<simFixed, jac>>

\* jaccard on the token sets of the drawn records, in both orders
SimJaccard ==
    /\ pc = "sim_jaccard"
    /\ LET s1 == tokenize(TextOf(current))
           s2 == tokenize(TextOf(cand))
       IN  jac' = [fwd  |-> jaccard(s1, s2),
                   bwd  |-> jaccard(s2, s1),
                   self |-> jaccard(s1, s1)]
    /\ pc' = "sim_done"
    /\ UNCHANGED <<simFixed, out>>

SimNext == SimScore \/ SimJaccard

SimSpec == SimInit /\ [][SimNext]_vars

----------------------------------------------------------------------------
(* Properties *)

InUnit(r) == r[2] > 0 /\ 0 <= r[1] /\ r[1] <= r[2]

Scored == pc \in {"sim_jaccard", "sim_done"}

RECURSIVE Flatten(_)
Flatten(pages) ==
    IF pages = <<>> THEN <<>> ELSE Head(pages) \o Flatten(Tail(pages))

\* every file name the files endpoint holds for pull request n
AllFiles(n) == Flatten(PRFilePages[n])

\* the record main builds for pull request n from complete reads
RecordOf(n) ==
    [number |-> n, title |-> PRTitle[n], body |-> BodyOrEmpty(PRBody[n]),
     files |-> AllFiles(n)]

Numbers(seq) == {seq[i].number : i \in DOMAIN seq}

\* C1: for every pair of records, compute_similarity returns file_overlap,
\* text_similarity and score in [0,1], and score is exactly
\* 0.6 * file_overlap + 0.4 * text_similarity.
C1_ScoreIsWeightedSum ==
    Scored =>
        /\ InUnit(out.file_overlap)
        /\ InUnit(out.text_sim)
        /\ InUnit(out.score)
        /\ out.score[1] * 10 * out.file_overlap[2] * out.text_sim[2]
             = out.score[2] * ( 6 * out.file_overlap[1] * out.text_sim[2]
                              + 4 * out.text_sim[1] * out.file_overlap[2] )

C1_Witness ==
    /\ pc = "sim_done"
    /\ current.files # <<>>
    /\ cand.files # <<>>
    /\ RatGt(out.file_overlap, Zero) /\ RatGt(One, out.file_overlap)
    /\ RatGt(out.text_sim, Zero) /\ RatGt(One, out.text_sim)

\* C2: file_overlap is 0 when current.files is empty, and otherwise
\* |current.files \cap candidate.files| / |current.files| on the sets of
\* distinct paths; a candidate holding every file of a non-empty current
\* gets 1.0 however many more files it has.
C2_FileOverlapAsymmetric ==
    Scored =>
        LET cf == Range(current.files)
            df == Range(cand.files)
            fo == out.file_overlap
        IN  /\ fo[2] > 0
            /\ cf = {} => fo[1] = 0
            /\ cf # {} => fo[1] * Cardinality(cf) = Cardinality(cf \cap df) * fo[2]
            /\ (cf # {} /\ cf \subseteq df) => fo[1] = fo[2]

C2_Witness ==
    /\ pc = "sim_done"
    /\ Range(current.files) # {}
    /\ Range(current.files) \subseteq Range(cand.files)
    /\ Range(current.files) # Range(cand.files)
    /\ out.file_overlap[1] = out.file_overlap[2]

\* C3: the reported list has at most 3 entries, is sorted by non-increasing
\* score, and each entry has score >= 0.5 and file_overlap >= 0.4; a
\* candidate meeting one threshold only is not reported.
C3_ReportedGatedSortedTop3 ==
    /\ Len(top) <= 3
    /\ \A i \in DOMAIN top : \A j \in DOMAIN top :
          i < j => top[i].score[1] * top[j].score[2]
                     >= top[j].score[1] * top[i].score[2]
    /\ \A i \in DOMAIN top :
          /\ 2 * top[i].score[1] >= top[i].score[2]
          /\ 5 * top[i].file_overlap[1] >= 2 * top[i].file_overlap[2]
    /\ notified > 0 => top = Take(candidates, 3)

C3_Witness ==
    /\ pc = "done"
    /\ notified = 1
    /\ Len(top) >= 2
    /\ \E n \in scored :
          LET o == compute_similarity(current, RecordOf(n))
          IN  /\ RatGeq(o.score, MinScore)
              /\ ~RatGeq(o.file_overlap, MinFileOverlap)
              /\ \A i \in DOMAIN top : top[i].cand.number # n

\* the entries of seq whose score equals v, in their order
WithScore(seq, v) ==
    LET Same(e) == RatEq(e.score, v) IN SelectSeq(seq, Same)

\* C4: gated candidates of equal score are reported in their order of
\* encounter; when more than 3 gated candidates all share one score, the
\* first 3 in encounter order are reported.
C4_StableAmongEqualScores ==
    notified > 0 =>
        /\ Len(candidates) = Len(encounter)
        /\ \A i \in DOMAIN encounter :
              WithScore(candidates, encounter[i].score)
                = WithScore(encounter, encounter[i].score)
        /\ top = Take(candidates, 3)
        /\ ( /\ Len(encounter) > 3
             /\ \A i \in DOMAIN encounter :
                   RatEq(encounter[i].score, encounter[1].score) )
           => top = SubSeq(encounter, 1, 3)

C4_Witness ==
    /\ pc = "done"
    /\ notified = 1
    /\ Len(encounter) > 3
    /\ \A i \in DOMAIN encounter : RatEq(encounter[i].score, encounter[1].score)
    /\ encounter[1].cand.number # encounter[2].cand.number
    /\ encounter[3].cand.number # encounter[4].cand.number
    /\ top = SubSeq(encounter, 1, 3)

\* C5: the current pull request is never scored against itself: no file
\* fetch and no compute_similarity call is made for a listing entry with the
\* current number, and no reported result has it, however often the current
\* pull request occurs in the listing.
C5_NeverScoredAgainstItself ==
    /\ current # NoRecord => current.number = pr_number
    /\ pc = "cand_files" => target # pr_number
    /\ pr_number \notin scored
    /\ cand.number # pr_number
    /\ \A i \in DOMAIN candidates : candidates[i].cand.number # pr_number
    /\ \A i \in DOMAIN top : top[i].cand.number # pr_number

C5_Witness ==
    /\ pc = "done"
    /\ top # <<>>
    /\ \E i \in DOMAIN recent_prs : \E j \in DOMAIN recent_prs :
          /\ i < j
          /\ recent_prs[i].number = pr_number
          /\ recent_prs[j].number = pr_number

\* C6: the notifier is invoked at most once, and only after every read of
\* the run succeeded and some candidate passed the gate; a failed read
\* aborts the run without a notification, and a run in which no candidate
\* passes ends without invoking the notifier.
C6_NotifyOnceAfterAllReads ==
    /\ notified <= 1
    /\ notified = 1 =>
          /\ pc \in {"post", "done", "raised"}
          /\ current = RecordOf(pr_number)
          /\ idx = Len(recent_prs) + 1
          /\ scored = Numbers(recent_prs) \ {pr_number}
          /\ candidates # <<>>
    /\ pc = "aborted" => notified = 0 /\ posted = "none" /\ exit = "error"
    /\ (pc = "done" /\ candidates = <<>>) =>
          /\ notified = 0
          /\ posted = "none"
          /\ "No similar PRs found." \in printed

C6_Witness ==
    /\ pc = "done"
    /\ notified = 1
    /\ posted = "2xx"
    /\ Len(recent_prs) >= 2
    /\ Cardinality(scored) >= 2

\* C7: when delivery of the notification fails, by an unreachable
\* destination or by a non-2xx answer, the failure is reported and the run
\* still ends normally.
C7_DeliveryFailureRecovered ==
    posted \in {"non2xx", "unreachable"} =>
        /\ pc = "done"
        /\ exit = "ok"
        /\ "Slack response:" \in printed

\* C8: jaccard is in [0,1] and symmetric, jaccard(s, s) = 1 for non-empty
\* s, jaccard({}, {}) = 0; records with identical non-empty token sets get
\* text_similarity 1.
C8_JaccardProperties ==
    pc = "sim_done" =>
        LET s1 == tokenize(TextOf(current))
            s2 == tokenize(TextOf(cand))
        IN  /\ InUnit(jac.fwd)
            /\ InUnit(jac.bwd)
            /\ jac.fwd[1] * jac.bwd[2] = jac.bwd[1] * jac.fwd[2]
            /\ s1 # {} => jac.self[1] = jac.self[2] /\ jac.self[2] > 0
            /\ (s1 = {} /\ s2 = {}) => jac.fwd[1] = 0 /\ jac.fwd[2] > 0
            /\ (s1 = s2 /\ s1 # {}) => out.text_sim[1] = out.text_sim[2]

C8_Witness ==
    /\ pc = "sim_done"
    /\ LET s1 == tokenize(TextOf(current))
           s2 == tokenize(TextOf(cand))
       IN  /\ s1 \cap s2 # {}
           /\ Cardinality(s1) # Cardinality(s2)
           /\ current.title # cand.title
    /\ RatGt(jac.fwd, Zero)
    /\ RatGt(One, jac.fwd)

PagesTo(n) == [i \in 1..n |-> i]

Fetching == pc \in {"cur_files", "cand_files"}

CompleteFileLists ==
    /\ Fetching =>
          /\ page <= Len(PRFilePages[target]) + 1
          /\ reqs = PagesTo(page - 1)
          /\ files = Flatten(SubSeq(PRFilePages[target], 1, page - 1))
    /\ pc \in {"list_fetch", "list_scan", "loop", "select", "post", "done", "raised"} =>
          /\ reqs = PagesTo(Len(PRFilePages[target]) + 1)
          /\ files = AllFiles(target)
          /\ current.files = AllFiles(pr_number)
    /\ cand # NoRecord => cand.files = AllFiles(cand.number)
    /\ \A i \in DOMAIN candidates :
          candidates[i].cand.files = AllFiles(candidates[i].cand.number)

\* C9: get_pr_files requests pages 1, 2, 3, ... in order, accumulates every
\* non-empty page and stops at the first empty page only; a pull request is
\* scored only with its complete file list; and the loop ends: each turn
\* either leaves it or moves to the next page, of which there are no more
\* than the non-empty pages served plus one.
C9_CompleteFileLists ==
    [][ /\ CompleteFileLists
        /\ CompleteFileLists'
        /\ Fetching =>
              \/ ~Fetching'
              \/ /\ target' = target
                 /\ page' = page + 1
                 /\ page' <= Len(PRFilePages[target]) + 1 ]_vars

C9_Witness ==
    /\ pc = "loop"
    /\ cand # NoRecord
    /\ Len(PRFilePages[cand.number]) >= 2
    /\ Len(PRFilePages[pr_number]) >= 2
    /\ reqs = PagesTo(Len(PRFilePages[cand.number]) + 1)
    /\ cand.files = AllFiles(cand.number)
    /\ scored = {cand.number}

\* C10: every entry of a fetched page of the listing whose updated_at is
\* within the window is in the returned set, whatever the order of the
\* entries in the page.
C10_NoRecentEntrySkipped ==
    [][pc = "list_scan" =>
          Len(prs') = Len(prs)
                      + Cardinality({i \in DOMAIN res : ~(res[i].updated_at < Since)})]_vars

====
